---- MODULE Spec2Model ----
(***************************************************************************)
(* Elicitation lifecycle of the voice banking assistant: the Redis-backed  *)
(* state store and per-session queue (elicitation_manager.py), the         *)
(* response handler (elicitation_response_handler.py) and the expiry       *)
(* sweeper (elicitation_cleanup.py).                                       *)
(*                                                                         *)
(* The manager's methods are synchronous: inside one event loop a call of  *)
(* create_elicitation, cancel_elicitation, mark_expired or a sweeper cycle *)
(* runs to its end, and handle_response runs from its start to the await   *)
(* of the confirm_payment tool and from the tool's reply to its return.    *)
(* Spec has one action per such run.  SpecProcs is the same code run by    *)
(* several processes against one Redis: there every Redis command is one   *)
(* step, and the commands of different processes interleave.               *)
(***************************************************************************)
EXTENDS Integers, Sequences, FiniteSets, TLC

\* ------------------------------------------------------------------ bounds
MaxIds == 2          \* elicitations created in one behaviour of Spec
NumHandlers == 2     \* handle_response invocations in flight at once in Spec
NumSessions == 2     \* sessions
MaxNow == 301        \* last clock value explored (seconds)
ClockSlack == 1      \* instants explored after each multiple of the timeout
ProcIds == 1         \* elicitations created in one behaviour of SpecProcs, SpecFaults
ProcHandlers == 2    \* handler processes of SpecProcs
NumQueueIds == 3     \* ids offered to the queue operations in SpecQueue
MaxQueueLen == 3     \* entries held by all queues together in SpecQueue
SweepIds == 3        \* elicitations created in one behaviour of SpecSweep
MaxResume == 2       \* confirm_payment calls per elicitation explored in SpecFaults
NumOrders == 2       \* order ids of SpecOtp
NumCallers == 2      \* confirm_payment invocations in flight at once in SpecOtp
MaxOtpNow == 601     \* last clock value explored in SpecOtp (seconds)

\* --------------------------------------------------------- program constants
DefaultTimeoutSeconds == 300   \* ELICITATION_TIMEOUT_SECONDS default
SchemaTimeoutSeconds == 300    \* timeout_seconds of the payment schemas
TtlBufferSeconds == 60         \* "Extra 60s buffer" of the key's TTL
OTP_EXPIRY_MINUTES == 10       \* OTPStore.OTP_EXPIRY_MINUTES

\* The clock values explored: the instants at and just after the multiples
\* of the timeout, where the expiry comparisons change their outcome
Instants == {t \in 0..MaxNow : t % DefaultTimeoutSeconds <= ClockSlack}

\* ElicitationStatus (schemas/elicitation.py)
PENDING == "pending"
PROCESSING == "processing"
COMPLETED == "completed"
EXPIRED == "expired"
FAILED == "failed"
CANCELLED == "cancelled"
Terminal == {COMPLETED, FAILED, EXPIRED, CANCELLED}

\* A Redis hash is a function from field names to values; a key that does
\* not exist reads as the empty hash.
EmptyHash == [f \in {} |-> 0]
None == [none |-> TRUE]
Some(v) == [none |-> FALSE, v |-> v]

\* Inputs of the callers found in the repository.
SuspendedArgs == {[user_id |-> "u1"]}
\* (an absent otp_code is "", confirmed is the Python value as written)
UserInputs == {[otp_code |-> "123456", confirmed |-> "False"],
               [otp_code |-> "", confirmed |-> "True"],
               [otp_code |-> "", confirmed |-> "False"]}
McpResults == {"ok", "isError"}

\* Arguments of create_elicitation called directly: timeout_seconds is
\* Optional[int], the default is int(ELICITATION_TIMEOUT_SECONDS)
\* Inputs of handle_response called directly: any dict as user_input, a
\* record whose suspended arguments have no user_id
ResumeInputs == UserInputs \cup {[otp_code |-> "", confirmed |-> "1"],
                                 [otp_code |-> "", confirmed |-> "None"],
                                 [otp_code |-> "123456", confirmed |-> "True"]}
ResumeArgs == SuspendedArgs \cup {[user_id |-> ""]}

TimeoutArgs == {None, Some(0), Some(-1), Some(60), Some(SchemaTimeoutSeconds)}
ConfiguredDefaults == {DefaultTimeoutSeconds, 600}

VARIABLES
    now,          \* datetime.utcnow(), in seconds
    store,        \* Redis: elicitation:{id} -> hash
    ttl,          \* Redis: expiry deadline of elicitation:{id}, None without one
    queue,        \* Redis: elicitation_queue:{session} -> list, head first
    issued,       \* number of uuid4() values drawn so far
    creator,      \* a process inside create_elicitation (SpecProcs)
    handler,      \* handle_response invocations
    returned,     \* the result a handle_response returned in the step just taken
    resumeCalls,  \* confirm_payment tool calls received downstream, per id
    created,      \* ids under which create_elicitation has stored a record
    qret,         \* the queue method called in the step just taken, with its result
    arrivals,     \* per session: the ids still queued, in the order they arrived
    swept,        \* the expired_ids of the sweeper cycle run in the step just taken
    sweeper,      \* the sweeper as a process of its own (SpecProcs)
    otps,         \* OTPStore._store: order_id -> entry
    confirms,     \* confirm_payment invocations of the payment service
    otpRet,       \* the payment service call that returned in the step just taken
    task          \* ElicitationCleanupTask: _running and the asyncio task of _run

vars == <<now, store, ttl, queue, issued, creator, handler, returned,
          resumeCalls, created, qret, arrivals, swept, sweeper,
          otps, confirms, otpRet, task>>

queueObs == <<qret, arrivals>>

otpVars == <<otps, confirms, otpRet>>

\* No task of _run exists and _running is False
NoTask == [running |-> FALSE, pc |-> "none", must_cancel |-> FALSE]

elicitVars == <<store, ttl, queue, issued, creator, handler, returned,
                resumeCalls, created, qret, arrivals, swept, sweeper, task>>

Ids == DOMAIN store
Handlers == DOMAIN handler
Sessions == DOMAIN queue

\* ------------------------------------------------------------ Redis commands
HGetAll(st, id) == st[id]

Exists(st, id) == DOMAIN st[id] # {}

HSetField(h, f, v) == [x \in DOMAIN h \cup {f} |-> IF x = f THEN v ELSE h[x]]

\* RPUSH in place of LPUSH
RPush(q, x) == q \o <<x>>

LPush(q, x) == <<x>> \o q

\* LINDEX key -1: the last element, nil for an empty list
LIndexLast(q) == IF Len(q) = 0 THEN None ELSE Some(q[Len(q)])

\* LREM key 1 x: the list without the first occurrence of x
RECURSIVE LRemFirst(_, _)
LRemFirst(q, x) == IF q = <<>> THEN <<>>
                   ELSE IF Head(q) = x THEN Tail(q)
                   ELSE <<Head(q)>> \o LRemFirst(Tail(q), x)

\* LREM key 0 x: the list without any occurrence of x
RECURSIVE LRemAll(_, _)
LRemAll(q, x) == IF q = <<>> THEN <<>>
                 ELSE IF Head(q) = x THEN LRemAll(Tail(q), x)
                 ELSE <<Head(q)>> \o LRemAll(Tail(q), x)

\* LREM's reply: the number of removed elements
RECURSIVE Count(_, _)
Count(q, x) == IF q = <<>> THEN 0
               ELSE (IF Head(q) = x THEN 1 ELSE 0) + Count(Tail(q), x)

\* ------------------------------------------------------- ElicitationManager
AllFields == {"elicitation_id", "tool_call_id", "session_id", "status",
              "schema", "created_at", "expires_at", "suspended_tool_arguments"}

\* An id generator that repeats the last id it gave out
LastIssued == IF issued = 0 THEN 1 ELSE issued

\* payment_elicitation.py: elicitation_id = str(uuid.uuid4())
uuid4 == issued + 1

\* create_elicitation: timeout = timeout_seconds or self.default_timeout_seconds,
\* for an argument that is None or an integer: None and 0 are falsy
timeout_or_default(timeout_seconds, default) ==
    IF timeout_seconds.none THEN default
    ELSE IF timeout_seconds.v = 0 THEN default
    ELSE timeout_seconds.v

\* The same for the integer that agent.py passes, under the default of 300
EffectiveTimeout(timeout_seconds) ==
    timeout_or_default(Some(timeout_seconds), DefaultTimeoutSeconds)

\* create_elicitation: expires_at = now + timedelta(seconds=timeout)
ExpiresAt(t, timeout) == t + timeout

\* create_elicitation / _store_elicitation: the hash written for a new state
\* whose timeout has been determined
ElicitationState(id, session, t, schema_timeout, timeout, args) ==
    [elicitation_id |-> id,
     tool_call_id |-> id,
     session_id |-> session,
     status |-> PENDING,
     schema |-> [elicitation_id |-> id, timeout_seconds |-> schema_timeout],
     created_at |-> t,
     expires_at |-> ExpiresAt(t, timeout),
     suspended_tool_arguments |-> args]

\* The state written for the call of agent.py, whose timeout_seconds is the
\* schema's
NewState(id, session, t, schema_timeout, args) ==
    ElicitationState(id, session, t, schema_timeout,
                     EffectiveTimeout(schema_timeout), args)

\* A TTL without the buffer
StoreTtlNoBuffer(t, timeout) == t + timeout

\* _store_elicitation: expire(key, ttl_seconds + 60)
StoreTtl(t, timeout) == t + timeout + TtlBufferSeconds

\* get_elicitation: None for a missing key and for a hash that lacks a field
\* (KeyError), the parsed state otherwise
get_elicitation(st, id) ==
    LET data == HGetAll(st, id)
    IN IF DOMAIN data = {} THEN None
       ELSE IF ~(AllFields \subseteq DOMAIN data) THEN None
       ELSE Some(data)

\* update_elicitation_status: its return value
update_ok(st, id) == Exists(st, id)

\* An update that also pushes the deadline out by the TTL's buffer
UpdateStatusAndExtend(st, id, status) ==
    IF ~Exists(st, id) THEN st
    ELSE [st EXCEPT ![id] = HSetField(HSetField(st[id], "status", status),
                                      "expires_at",
                                      st[id]["expires_at"] + TtlBufferSeconds)]

\* update_elicitation_status: the store after the call
update_elicitation_status(st, id, status) ==
    IF ~Exists(st, id) THEN st
    ELSE [st EXCEPT ![id] = HSetField(st[id], "status", status)]

\* _add_to_queue: lpush(queue_key, elicitation_id)
add_to_queue(q, session, id) == [q EXCEPT ![session] = LPush(q[session], id)]

\* get_next_in_queue: lindex(queue_key, -1)
get_next_in_queue(q, session) == LIndexLast(q[session])

\* remove_from_queue: removed = lrem(queue_key, 0, elicitation_id)
removed(q, session, id) == Count(q[session], id)

\* remove_from_queue: return removed > 0
remove_result(q, session, id) == removed(q, session, id) > 0

\* remove_from_queue: lrem(queue_key, 0, elicitation_id)
remove_from_queue(q, session, id) ==
    [q EXCEPT ![session] = LRemAll(q[session], id)]

\* get_queue_length: llen(queue_key)
get_queue_length(q, session) == Len(q[session])

\* The store and queue left by a manager call, with its return value
Outcome(st, q, ok) == [store |-> st, queue |-> q, ok |-> ok]

\* mark_expired and cancel_elicitation share their body: look the state up,
\* write the status, remove the id from the queue of state.session_id
SetStatusAndDequeue(st, q, id, status) ==
    LET got == get_elicitation(st, id)
    IN IF got.none THEN Outcome(st, q, FALSE)
       ELSE IF ~update_ok(st, id) THEN Outcome(st, q, FALSE)
       ELSE Outcome(update_elicitation_status(st, id, status),
                    remove_from_queue(q, got.v["session_id"], id), TRUE)

mark_expired(st, q, id) == SetStatusAndDequeue(st, q, id, EXPIRED)

cancel_elicitation(st, q, id) == SetStatusAndDequeue(st, q, id, CANCELLED)

\* A test of the age that compares against created_at
IsPendingAfterCreation(data, t) ==
    /\ "status" \in DOMAIN data
    /\ data["status"] = PENDING
    /\ "created_at" \in DOMAIN data
    /\ t > data["created_at"]
    /\ "elicitation_id" \in DOMAIN data

\* find_expired_elicitations: the test applied to one scanned hash
IsExpiredPending(data, t) ==
    /\ "status" \in DOMAIN data
    /\ data["status"] = PENDING
    /\ "expires_at" \in DOMAIN data
    /\ t > data["expires_at"]
    /\ "elicitation_id" \in DOMAIN data

\* find_expired_elicitations: the ids collected from the keys in scan order
RECURSIVE find_expired_elicitations(_, _, _)
find_expired_elicitations(st, t, keys) ==
    IF keys = <<>> THEN <<>>
    ELSE LET data == HGetAll(st, Head(keys))
             rest == find_expired_elicitations(st, t, Tail(keys))
         IN IF DOMAIN data # {} /\ IsExpiredPending(data, t)
            THEN <<data["elicitation_id"]>> \o rest
            ELSE rest

\* A loop that ends after its first id
CleanupFirstOnly(st, q, ids) ==
    IF ids = <<>> THEN Outcome(st, q, TRUE)
    ELSE IF get_elicitation(st, Head(ids)).none
         THEN Outcome(st, q, TRUE)
         ELSE LET m == mark_expired(st, q, Head(ids))
              IN Outcome(m.store, m.queue, TRUE)

\* _cleanup_expired: the loop over expired_ids
RECURSIVE CleanupLoop(_, _, _)
CleanupLoop(st, q, ids) ==
    IF ids = <<>> THEN Outcome(st, q, TRUE)
    ELSE IF get_elicitation(st, Head(ids)).none
         THEN CleanupLoop(st, q, Tail(ids))
         ELSE LET m == mark_expired(st, q, Head(ids))
              IN CleanupLoop(m.store, m.queue, Tail(ids))

\* An expiry test that is already true at the deadline
ResponseExpiredAtDeadline(t, state) == t >= state["expires_at"]

\* An expiry test that allows the TTL's buffer as a grace period
ResponseExpiredAfterGrace(t, state) == t > state["expires_at"] + TtlBufferSeconds

\* handle_response, step 3: datetime.utcnow() > state.expires_at
ResponseExpired(t, state) == t > state["expires_at"]

\* A choice of the code that takes any truthy confirmation
FinalOtpTruthy(user_input, args) ==
    IF args["user_id"] = "" THEN ""
    ELSE IF user_input["otp_code"] # "" THEN user_input["otp_code"]
    ELSE IF user_input["confirmed"] \in {"True", "1"} THEN "000000"
    ELSE ""

\* _call_confirm_payment: the one-time code sent downstream, "" when the
\* call is refused before the MCP request (no user_id, no code and no
\* confirmation)
FinalOtp(user_input, args) ==
    IF args["user_id"] = "" THEN ""
    ELSE IF user_input["otp_code"] # "" THEN user_input["otp_code"]
    ELSE IF user_input["confirmed"] = "True" THEN "000000"
    ELSE ""

\* Result mappings that ignore the MCP reply
ResultAlwaysFailed(reply) == FAILED
ResultAlwaysCompleted(reply) == COMPLETED

\* _call_confirm_payment: the MCP reply turned into a result status
ResultStatus(reply) == IF reply = "ok" THEN COMPLETED ELSE FAILED

\* Results that report a lookup failure as a failed payment, and an invalid
\* status without naming it
NotFoundAsFailed == <<"failed", "not_found">>
InvalidStatusUnnamed(status) == <<"error", "invalid_status">>

\* handle_response: the dicts it returns
NotFoundError == <<"error", "not_found">>
InvalidStatusError(status) == <<"error", status>>
ExpiredError == <<"error", "expired">>
CompletedResult == <<"completed", "payment_result">>
FailedResult == <<"failed", "error">>
NoResult == <<"none", "none">>

\* The scan orders of a set of keys (SCAN returns keys in no given order)
Orders(S) == {s \in [1..Cardinality(S) -> S] : \A k \in S : \E i \in DOMAIN s : s[i] = k}

\* No handle_response returned in the step just taken
NoReturn == [id |-> 0, result |-> NoResult]

\* No queue method was called on its own in the step just taken
NoQueueCall == [op |-> "none", session |-> 0, id |-> 0, value |-> FALSE, removed |-> 0]

\* No sweeper cycle ran in the step just taken
NoSweep == [ran |-> FALSE, expired_ids |-> <<>>]

\* A step in which no handle_response returns and no sweeper cycle runs
Quiet == returned' = NoReturn /\ swept' = NoSweep /\ UNCHANGED <<queueObs, otpVars, task>>

\* ------------------------------------------------------------------- Init
IdleCreator == [pc |-> "idle", id |-> 0, session |-> 0]
IdleHandler == [pc |-> "idle", id |-> 0, state |-> EmptyHash,
                user_input |-> EmptyHash, otp_code |-> "", res |-> "none"]
IdleSweeper == [pc |-> "idle", expired_ids |-> <<>>, state |-> EmptyHash]
IdleConfirm == [pc |-> "idle", order_id |-> 0, otp |-> ""]
NoOtpReturn == [call |-> "none", order_id |-> 0, otp |-> "", success |-> FALSE]

InitWith(ids, handlers, sessions) ==
    /\ now = 0
    /\ store = [i \in 1..ids |-> EmptyHash]
    /\ ttl = [i \in 1..ids |-> None]
    /\ queue = [s \in 1..sessions |-> <<>>]
    /\ issued = 0
    /\ creator = IdleCreator
    /\ handler = [h \in 1..handlers |-> IdleHandler]
    /\ returned = NoReturn
    /\ resumeCalls = [i \in 1..ids |-> 0]
    /\ created = {}
    /\ qret = NoQueueCall
    /\ arrivals = [s \in 1..sessions |-> <<>>]
    /\ swept = NoSweep
    /\ sweeper = IdleSweeper
    /\ task = NoTask

\* OTPStore.__init__: no entries; no payment service call in progress
InitOtpWith(orders, callers) ==
    /\ otps = [o \in 1..orders |-> None]
    /\ confirms = [c \in 1..callers |-> IdleConfirm]
    /\ otpRet = NoOtpReturn

Init == InitWith(MaxIds, NumHandlers, NumSessions) /\ InitOtpWith(0, 0)

\* ------------------------------------------------------------------ clock
\* Redis: a key whose TTL has run out is gone
ExpireKeys(st, deadlines, t) ==
    [i \in DOMAIN st |->
        IF deadlines[i] # None /\ t >= deadlines[i].v THEN EmptyHash ELSE st[i]]

ExpireTtls(deadlines, t) ==
    [i \in DOMAIN deadlines |->
        IF deadlines[i] # None /\ t >= deadlines[i].v THEN None ELSE deadlines[i]]

Tick(t) ==
    /\ t > now
    /\ now' = t
    /\ store' = ExpireKeys(store, ttl, t)
    /\ ttl' = ExpireTtls(ttl, t)
    /\ Quiet
    /\ UNCHANGED <<sweeper, queue, issued, creator, handler,
                   resumeCalls, created>>

SetHandler(h, r) == handler' = [handler EXCEPT ![h] = r]

\* handle_response returns `result` for `id`: the invocation is over
Return(h, id, result) ==
    /\ SetHandler(h, IdleHandler)
    /\ returned' = [id |-> id, result |-> result]
    /\ swept' = NoSweep
    /\ UNCHANGED <<queueObs, otpVars, task>>

\* ============================ one event loop ==============================
\* create_elicitation, called by agent.py with the schema of a tool result:
\* the id is the schema's uuid4, the timeout the schema's timeout_seconds
CreateElicitation(session, args) ==
    /\ creator.pc = "idle"
    /\ issued < Cardinality(Ids)
    /\ LET id == uuid4
       IN /\ issued' = issued + 1
          /\ store' = [store EXCEPT
                 ![id] = NewState(id, session, now, SchemaTimeoutSeconds, args)]
          /\ ttl' = [ttl EXCEPT
                 ![id] = Some(StoreTtl(now, EffectiveTimeout(SchemaTimeoutSeconds)))]
          /\ queue' = add_to_queue(queue, session, id)
          /\ created' = created \cup {id}
    /\ Quiet
    /\ UNCHANGED <<now, sweeper, creator, handler, resumeCalls>>

\* handle_response from its start to the await of the MCP request (steps 1
\* to 5), or to its return when it does not get that far
HandleResponse(h, id, user_input) ==
    /\ handler[h].pc = "idle"
    /\ LET got == get_elicitation(store, id)
       IN IF got.none
          THEN /\ Return(h, id, NotFoundError)
               /\ UNCHANGED <<store, queue, resumeCalls>>
          ELSE IF got.v["status"] # PENDING
          THEN /\ Return(h, id, InvalidStatusError(got.v["status"]))
               /\ UNCHANGED <<store, queue, resumeCalls>>
          ELSE IF ResponseExpired(now, got.v)
          THEN LET m == mark_expired(store, queue, id)
               IN /\ store' = m.store
                  /\ queue' = m.queue
                  /\ Return(h, id, ExpiredError)
                  /\ UNCHANGED resumeCalls
          ELSE LET st == update_elicitation_status(store, id, PROCESSING)
                   otp == FinalOtp(user_input, got.v["suspended_tool_arguments"])
               IN IF otp = ""
                  THEN /\ store' = update_elicitation_status(st, id, FAILED)
                       /\ Return(h, id, FailedResult)
                       /\ UNCHANGED <<queue, resumeCalls>>
                  ELSE /\ store' = st
                       /\ resumeCalls' = [resumeCalls EXCEPT ![id] = @ + 1]
                       /\ SetHandler(h, [IdleHandler EXCEPT !.pc = "awaiting", !.id = id,
                                            !.state = got.v, !.user_input = user_input,
                                            !.otp_code = otp])
                       /\ Quiet
                       /\ UNCHANGED queue
    /\ UNCHANGED <<now, sweeper, ttl, issued, creator, created>>

\* handle_response from the MCP reply to its return (steps 6 and 7)
HandleResume(h, reply) ==
    /\ handler[h].pc = "awaiting"
    /\ store' = update_elicitation_status(store, handler[h].id, ResultStatus(reply))
    /\ IF ResultStatus(reply) = COMPLETED
       THEN /\ queue' = remove_from_queue(queue, handler[h].state["session_id"],
                                          handler[h].id)
            /\ Return(h, handler[h].id, CompletedResult)
       ELSE /\ UNCHANGED queue
            /\ Return(h, handler[h].id, FailedResult)
    /\ UNCHANGED <<now, sweeper, ttl, issued, creator, resumeCalls, created>>

\* One cycle of the sweeper: _cleanup_expired
CleanupExpired(keys) ==
    /\ LET expired_ids == find_expired_elicitations(store, now, keys)
           m == CleanupLoop(store, queue, expired_ids)
       IN /\ store' = m.store
          /\ queue' = m.queue
          /\ swept' = [ran |-> TRUE, expired_ids |-> expired_ids]
    /\ returned' = NoReturn
    /\ UNCHANGED <<queueObs, otpVars, task>>
    /\ UNCHANGED <<now, sweeper, ttl, issued, creator, handler, resumeCalls, created>>

\* cancel_elicitation(id)
CancelElicitation(id) ==
    /\ LET m == cancel_elicitation(store, queue, id)
       IN /\ store' = m.store
          /\ queue' = m.queue
    /\ Quiet
    /\ UNCHANGED <<now, sweeper, ttl, issued, creator, handler, resumeCalls, created>>

Next ==
    \/ \E t \in Instants : Tick(t)
    \/ \E s \in Sessions, a \in SuspendedArgs : CreateElicitation(s, a)
    \/ \E h \in Handlers, i \in Ids, u \in UserInputs : HandleResponse(h, i, u)
    \/ \E h \in Handlers, r \in McpResults : HandleResume(h, r)
    \/ \E keys \in Orders({i \in Ids : Exists(store, i)}) : CleanupExpired(keys)
    \/ \E i \in Ids : CancelElicitation(i)

Spec == Init /\ [][Next]_vars

\* ========================= several processes ==============================
\* create_elicitation in another process: _store_elicitation (HSET, EXPIRE)
ProcCreateStore(session, args) ==
    /\ creator.pc = "idle"
    /\ issued < Cardinality(Ids)
    /\ LET id == uuid4
       IN /\ issued' = issued + 1
          /\ store' = [store EXCEPT
                 ![id] = NewState(id, session, now, SchemaTimeoutSeconds, args)]
          /\ ttl' = [ttl EXCEPT
                 ![id] = Some(StoreTtl(now, EffectiveTimeout(SchemaTimeoutSeconds)))]
          /\ created' = created \cup {id}
          /\ creator' = [pc |-> "enqueue", id |-> id, session |-> session]
    /\ Quiet
    /\ UNCHANGED <<now, sweeper, queue, handler, resumeCalls>>

\* create_elicitation: _add_to_queue (LPUSH, EXPIRE)
ProcCreateEnqueue ==
    /\ creator.pc = "enqueue"
    /\ queue' = add_to_queue(queue, creator.session, creator.id)
    /\ creator' = IdleCreator
    /\ Quiet
    /\ UNCHANGED <<now, sweeper, store, ttl, issued, handler, resumeCalls, created>>

\* create_elicitation: LPUSH raises RedisError, _add_to_queue re-raises it
\* and create_elicitation ends without a queue entry
ProcCreateEnqueueFails ==
    /\ creator.pc = "enqueue"
    /\ creator' = IdleCreator
    /\ Quiet
    /\ UNCHANGED <<now, sweeper, store, ttl, queue, issued, handler,
                   resumeCalls, created>>

\* handle_response, steps 1 and 2: HGETALL, then the status test
ProcGet(h, id, user_input) ==
    /\ handler[h].pc = "idle"
    /\ LET got == get_elicitation(store, id)
       IN IF got.none THEN Return(h, id, NotFoundError)
          ELSE IF got.v["status"] # PENDING
          THEN Return(h, id, InvalidStatusError(got.v["status"]))
          ELSE /\ SetHandler(h, [IdleHandler EXCEPT !.pc = "check_expiry", !.id = id,
                                    !.state = got.v, !.user_input = user_input])
               /\ Quiet
    /\ UNCHANGED <<now, sweeper, store, ttl, queue, issued, creator, resumeCalls, created>>

\* Step 3: the clock is read after the lookup
ProcCheckExpiry(h) ==
    /\ handler[h].pc = "check_expiry"
    /\ SetHandler(h, [handler[h] EXCEPT !.pc =
           IF ResponseExpired(now, handler[h].state) THEN "mx_get" ELSE "set_processing"])
    /\ Quiet
    /\ UNCHANGED <<now, sweeper, store, ttl, queue, issued, creator, resumeCalls, created>>

\* mark_expired called from step 3: its own get_elicitation (HGETALL)
ProcMarkExpiredGet(h) ==
    /\ handler[h].pc = "mx_get"
    /\ LET got == get_elicitation(store, handler[h].id)
       IN IF got.none THEN Return(h, handler[h].id, ExpiredError)
          ELSE /\ SetHandler(h, [handler[h] EXCEPT !.pc = "mx_update", !.state = got.v])
               /\ Quiet
    /\ UNCHANGED <<now, sweeper, store, ttl, queue, issued, creator, resumeCalls, created>>

\* mark_expired: update_elicitation_status(id, EXPIRED)
ProcMarkExpiredUpdate(h) ==
    /\ handler[h].pc = "mx_update"
    /\ store' = update_elicitation_status(store, handler[h].id, EXPIRED)
    /\ IF update_ok(store, handler[h].id)
       THEN SetHandler(h, [handler[h] EXCEPT !.pc = "mx_lrem"]) /\ Quiet
       ELSE Return(h, handler[h].id, ExpiredError)
    /\ UNCHANGED <<now, sweeper, ttl, queue, issued, creator, resumeCalls, created>>

\* mark_expired: remove_from_queue (LREM); step 3 then returns the error
ProcMarkExpiredRemove(h) ==
    /\ handler[h].pc = "mx_lrem"
    /\ queue' = remove_from_queue(queue, handler[h].state["session_id"], handler[h].id)
    /\ Return(h, handler[h].id, ExpiredError)
    /\ UNCHANGED <<now, sweeper, store, ttl, issued, creator, resumeCalls, created>>

\* Step 4: update_elicitation_status(id, PROCESSING), its result ignored
ProcSetProcessing(h) ==
    /\ handler[h].pc = "set_processing"
    /\ store' = update_elicitation_status(store, handler[h].id, PROCESSING)
    /\ SetHandler(h, [handler[h] EXCEPT !.pc = "call"])
    /\ Quiet
    /\ UNCHANGED <<now, sweeper, ttl, queue, issued, creator, resumeCalls, created>>

\* Step 5: _call_confirm_payment up to the MCP request
ProcCall(h) ==
    /\ handler[h].pc = "call"
    /\ IF FinalOtp(handler[h].user_input,
                   handler[h].state["suspended_tool_arguments"]) = ""
       THEN /\ SetHandler(h, [handler[h] EXCEPT !.pc = "finish", !.res = FAILED])
            /\ UNCHANGED resumeCalls
       ELSE /\ SetHandler(h, [handler[h] EXCEPT !.pc = "awaiting", !.otp_code =
                   FinalOtp(handler[h].user_input,
                            handler[h].state["suspended_tool_arguments"])])
            /\ resumeCalls' = [resumeCalls EXCEPT ![handler[h].id] = @ + 1]
    /\ Quiet
    /\ UNCHANGED <<now, sweeper, store, ttl, queue, issued, creator, created>>

\* _call_confirm_payment: the MCP reply
ProcMcpReply(h, reply) ==
    /\ handler[h].pc = "awaiting"
    /\ SetHandler(h, [handler[h] EXCEPT !.pc = "finish", !.res = ResultStatus(reply)])
    /\ Quiet
    /\ UNCHANGED <<now, sweeper, store, ttl, queue, issued, creator, resumeCalls, created>>

\* Steps 6 and 7: update_elicitation_status(id, COMPLETED | FAILED)
ProcFinish(h) ==
    /\ handler[h].pc = "finish"
    /\ store' = update_elicitation_status(store, handler[h].id, handler[h].res)
    /\ IF handler[h].res = COMPLETED
       THEN SetHandler(h, [handler[h] EXCEPT !.pc = "lrem"]) /\ Quiet
       ELSE Return(h, handler[h].id, FailedResult)
    /\ UNCHANGED <<now, sweeper, ttl, queue, issued, creator, resumeCalls, created>>

\* Step 6: remove_from_queue (LREM), then the result is returned
ProcRemove(h) ==
    /\ handler[h].pc = "lrem"
    /\ queue' = remove_from_queue(queue, handler[h].state["session_id"], handler[h].id)
    /\ Return(h, handler[h].id, CompletedResult)
    /\ UNCHANGED <<now, sweeper, store, ttl, issued, creator, resumeCalls, created>>

\* The sweeper moves on to the next id of its list, or ends the cycle
SweeperContinue ==
    IF Len(sweeper.expired_ids) > 1
    THEN [pc |-> "get", expired_ids |-> Tail(sweeper.expired_ids), state |-> EmptyHash]
    ELSE IdleSweeper

\* _cleanup_expired in a process of its own: find_expired_elicitations
\* (the scan read at one instant)
SweepFind(keys) ==
    /\ sweeper.pc = "idle"
    /\ LET expired_ids == find_expired_elicitations(store, now, keys)
       IN sweeper' = IF expired_ids = <<>> THEN IdleSweeper
                     ELSE [pc |-> "get", expired_ids |-> expired_ids,
                           state |-> EmptyHash]
    /\ Quiet
    /\ UNCHANGED <<now, store, ttl, queue, issued, creator, handler,
                   resumeCalls, created>>

\* The loop's get_elicitation (HGETALL): "if not state: continue"
SweepGet ==
    /\ sweeper.pc = "get"
    /\ LET got == get_elicitation(store, Head(sweeper.expired_ids))
       IN sweeper' = IF got.none THEN SweeperContinue
                     ELSE [sweeper EXCEPT !.pc = "mx_get", !.state = got.v]
    /\ Quiet
    /\ UNCHANGED <<now, store, ttl, queue, issued, creator, handler,
                   resumeCalls, created>>

\* mark_expired called from the loop: its own get_elicitation (HGETALL)
SweepMarkExpiredGet ==
    /\ sweeper.pc = "mx_get"
    /\ LET got == get_elicitation(store, Head(sweeper.expired_ids))
       IN sweeper' = IF got.none THEN SweeperContinue
                     ELSE [sweeper EXCEPT !.pc = "mx_update", !.state = got.v]
    /\ Quiet
    /\ UNCHANGED <<now, store, ttl, queue, issued, creator, handler,
                   resumeCalls, created>>

\* mark_expired: update_elicitation_status(id, EXPIRED)
SweepMarkExpiredUpdate ==
    /\ sweeper.pc = "mx_update"
    /\ store' = update_elicitation_status(store, Head(sweeper.expired_ids), EXPIRED)
    /\ sweeper' = IF update_ok(store, Head(sweeper.expired_ids))
                  THEN [sweeper EXCEPT !.pc = "mx_lrem"]
                  ELSE SweeperContinue
    /\ Quiet
    /\ UNCHANGED <<now, ttl, queue, issued, creator, handler, resumeCalls, created>>

\* mark_expired: remove_from_queue (LREM)
SweepMarkExpiredRemove ==
    /\ sweeper.pc = "mx_lrem"
    /\ queue' = remove_from_queue(queue, sweeper.state["session_id"],
                                  Head(sweeper.expired_ids))
    /\ sweeper' = SweeperContinue
    /\ Quiet
    /\ UNCHANGED <<now, store, ttl, issued, creator, handler, resumeCalls, created>>

InitProcs == InitWith(ProcIds, ProcHandlers, NumSessions) /\ InitOtpWith(0, 0)

NextProcs ==
    \/ \E t \in Instants : Tick(t)
    \/ \E s \in Sessions, a \in SuspendedArgs : ProcCreateStore(s, a)
    \/ ProcCreateEnqueue
    \/ ProcCreateEnqueueFails
    \/ \E h \in Handlers, i \in Ids, u \in UserInputs : ProcGet(h, i, u)
    \/ \E h \in Handlers : ProcCheckExpiry(h)
    \/ \E h \in Handlers : ProcMarkExpiredGet(h)
    \/ \E h \in Handlers : ProcMarkExpiredUpdate(h)
    \/ \E h \in Handlers : ProcMarkExpiredRemove(h)
    \/ \E h \in Handlers : ProcSetProcessing(h)
    \/ \E h \in Handlers : ProcCall(h)
    \/ \E h \in Handlers, r \in McpResults : ProcMcpReply(h, r)
    \/ \E h \in Handlers : ProcFinish(h)
    \/ \E h \in Handlers : ProcRemove(h)
    \/ \E keys \in Orders({i \in Ids : Exists(store, i)}) : SweepFind(keys)
    \/ SweepGet
    \/ SweepMarkExpiredGet
    \/ SweepMarkExpiredUpdate
    \/ SweepMarkExpiredRemove

SpecProcs == InitProcs /\ [][NextProcs]_vars

\* ========================= the queue on its own ===========================
RECURSIVE TotalLen(_, _)
TotalLen(q, n) == IF n = 0 THEN 0 ELSE Len(q[n]) + TotalLen(q, n - 1)

QueueCall(op, session, id, value, n) ==
    [op |-> op, session |-> session, id |-> id, value |-> value, removed |-> n]

\* _add_to_queue(session_id, elicitation_id)
QueueAdd(session, id) ==
    /\ TotalLen(queue, Cardinality(Sessions)) < MaxQueueLen
    /\ queue' = add_to_queue(queue, session, id)
    /\ arrivals' = [arrivals EXCEPT ![session] = Append(@, id)]
    /\ qret' = QueueCall("add", session, id, TRUE, 0)
    /\ UNCHANGED <<now, sweeper, store, ttl, issued, creator, handler, returned,
                   resumeCalls, created>>
    /\ UNCHANGED <<swept, otpVars, task>>

\* get_next_in_queue(session_id)
QueuePeek(session) ==
    /\ qret' = QueueCall("peek", session, 0, get_next_in_queue(queue, session), 0)
    /\ UNCHANGED <<now, sweeper, store, ttl, queue, issued, creator, handler, returned,
                   resumeCalls, created, arrivals>>
    /\ UNCHANGED <<swept, otpVars, task>>

\* remove_from_queue(session_id, elicitation_id)
QueueRemove(session, id) ==
    /\ queue' = remove_from_queue(queue, session, id)
    /\ arrivals' = [arrivals EXCEPT ![session] = SelectSeq(@, LAMBDA x : x # id)]
    /\ qret' = QueueCall("remove", session, id, remove_result(queue, session, id),
                       removed(queue, session, id))
    /\ UNCHANGED <<now, sweeper, store, ttl, issued, creator, handler, returned,
                   resumeCalls, created>>
    /\ UNCHANGED <<swept, otpVars, task>>

\* get_queue_length(session_id)
QueueLength(session) ==
    /\ qret' = QueueCall("length", session, 0, get_queue_length(queue, session), 0)
    /\ UNCHANGED <<now, sweeper, store, ttl, queue, issued, creator, handler, returned,
                   resumeCalls, created, arrivals>>
    /\ UNCHANGED <<swept, otpVars, task>>

InitQueue == InitWith(NumQueueIds, 0, NumSessions) /\ InitOtpWith(0, 0)

NextQueue ==
    \/ \E s \in Sessions, i \in Ids : QueueAdd(s, i)
    \/ \E s \in Sessions : QueuePeek(s)
    \/ \E s \in Sessions, i \in Ids : QueueRemove(s, i)
    \/ \E s \in Sessions : QueueLength(s)

SpecQueue == InitQueue /\ [][NextQueue]_vars

\* ======================= the two-step OTP payment =========================
\* OTPStore.TEST_OTP, and the codes a customer submits
TEST_OTP == "123456"
OtpInputs == {TEST_OTP, "999999"}

\* timedelta(minutes=OTP_EXPIRY_MINUTES), in seconds
OtpExpirySeconds == OTP_EXPIRY_MINUTES * 60

\* The clock values explored: at and just after the multiples of the expiry
OtpInstants == {t \in 0..MaxOtpNow : t % OtpExpirySeconds <= ClockSlack}

Orders_ids == DOMAIN otps
Callers == DOMAIN confirms

\* generate_otp(order_id, phone_number, use_test_otp=True)
generate_otp(st, order_id, t) ==
    [st EXCEPT ![order_id] = Some([otp |-> TEST_OTP,
                                   expires_at |-> t + OtpExpirySeconds])]

\* A verification that does not look at the expiry
VerifyIgnoringExpiry(st, order_id, otp, t) ==
    IF st[order_id].none THEN FALSE
    ELSE otp = st[order_id].v.otp

\* verify_otp(order_id, otp)
verify_otp(st, order_id, otp, t) ==
    IF st[order_id].none THEN FALSE
    ELSE IF t > st[order_id].v.expires_at THEN FALSE
    ELSE IF otp # st[order_id].v.otp THEN FALSE
    ELSE TRUE

\* delete_otp(order_id)
delete_otp(st, order_id) == [st EXCEPT ![order_id] = None]

OtpReturn(call, order_id, otp, success) ==
    [call |-> call, order_id |-> order_id, otp |-> otp, success |-> success]

OtpTick(t) ==
    /\ t > now
    /\ now' = t
    /\ otpRet' = NoOtpReturn
    /\ UNCHANGED <<otps, confirms, elicitVars>>

\* initiate_payment from the reply of get_order_status to its return
InitiatePayment(order_id, order_found) ==
    /\ IF order_found
       THEN /\ otps' = generate_otp(otps, order_id, now)
            /\ otpRet' = OtpReturn("initiate", order_id, TEST_OTP, TRUE)
       ELSE /\ UNCHANGED otps
            /\ otpRet' = OtpReturn("initiate", order_id, "", FALSE)
    /\ UNCHANGED <<now, confirms, elicitVars>>

\* confirm_payment from its start to the await of get_order_status, or to
\* its return when the OTP is not valid
ConfirmPayment(c, order_id, otp) ==
    /\ confirms[c].pc = "idle"
    /\ IF verify_otp(otps, order_id, otp, now)
       THEN /\ confirms' = [confirms EXCEPT
                   ![c] = [pc |-> "awaiting", order_id |-> order_id, otp |-> otp]]
            /\ otpRet' = NoOtpReturn
       ELSE /\ UNCHANGED confirms
            /\ otpRet' = OtpReturn("confirm", order_id, otp, FALSE)
    /\ UNCHANGED <<now, otps, elicitVars>>

\* confirm_payment from the reply of get_order_status to its return
ConfirmFinish(c) ==
    /\ confirms[c].pc = "awaiting"
    /\ otps' = delete_otp(otps, confirms[c].order_id)
    /\ confirms' = [confirms EXCEPT ![c] = IdleConfirm]
    /\ otpRet' = OtpReturn("confirm", confirms[c].order_id, confirms[c].otp, TRUE)
    /\ UNCHANGED <<now, elicitVars>>

InitOtp == InitWith(0, 0, 0) /\ InitOtpWith(NumOrders, NumCallers)

NextOtp ==
    \/ \E t \in OtpInstants : OtpTick(t)
    \/ \E o \in Orders_ids, found \in BOOLEAN : InitiatePayment(o, found)
    \/ \E c \in Callers, o \in Orders_ids, p \in OtpInputs : ConfirmPayment(c, o, p)
    \/ \E c \in Callers : ConfirmFinish(c)

SpecOtp == InitOtp /\ [][NextOtp]_vars

\* ==================== handle_response on any input ========================
InitResume == InitWith(ProcIds, NumHandlers, NumSessions) /\ InitOtpWith(0, 0)

NextResume ==
    \/ \E t \in Instants : Tick(t)
    \/ \E s \in Sessions, a \in ResumeArgs : CreateElicitation(s, a)
    \/ \E h \in Handlers, i \in Ids, u \in ResumeInputs : HandleResponse(h, i, u)
    \/ \E h \in Handlers, r \in McpResults : HandleResume(h, r)

SpecResume == InitResume /\ [][NextResume]_vars

\* ================== the record's key and its TTL, by command ==============
\* The clock values explored: those of Instants, and the same after the
\* TTL's buffer
TtlInstants == Instants \cup {t + TtlBufferSeconds : t \in Instants}

\* The statuses written by the callers of update_elicitation_status
UpdateStatuses == {PROCESSING, EXPIRED, CANCELLED}

\* _store_elicitation: hset(key, mapping=data)
StoreHSet(session, args) ==
    /\ creator.pc = "idle"
    /\ issued < Cardinality(Ids)
    /\ LET id == uuid4
       IN /\ issued' = issued + 1
          /\ store' = [store EXCEPT
                 ![id] = NewState(id, session, now, SchemaTimeoutSeconds, args)]
          /\ created' = created \cup {id}
          /\ creator' = [pc |-> "expire", id |-> id, session |-> session]
    /\ Quiet
    /\ UNCHANGED <<now, sweeper, ttl, queue, handler, resumeCalls>>

\* _store_elicitation: expire(key, ttl_seconds + 60); _add_to_queue is next
StoreExpire ==
    /\ creator.pc = "expire"
    /\ ttl' = [ttl EXCEPT ![creator.id] =
                 IF Exists(store, creator.id)
                 THEN Some(StoreTtl(now, EffectiveTimeout(SchemaTimeoutSeconds)))
                 ELSE @]
    /\ creator' = [creator EXCEPT !.pc = "enqueue"]
    /\ Quiet
    /\ UNCHANGED <<now, sweeper, store, queue, issued, handler, resumeCalls, created>>

\* _store_elicitation: EXPIRE raises RedisError, which is re-raised
StoreExpireFails ==
    /\ creator.pc = "expire"
    /\ creator' = IdleCreator
    /\ Quiet
    /\ UNCHANGED <<now, sweeper, store, ttl, queue, issued, handler,
                   resumeCalls, created>>

\* update_elicitation_status(id, status): exists(key); False when it is not
\* there
UpdateExists(h, id, status) ==
    /\ handler[h].pc = "idle"
    /\ IF Exists(store, id)
       THEN /\ SetHandler(h, [IdleHandler EXCEPT !.pc = "hset", !.id = id,
                                 !.res = status])
            /\ Quiet
       ELSE Return(h, id, <<"update", "False">>)
    /\ UNCHANGED <<now, sweeper, store, ttl, queue, issued, creator,
                   resumeCalls, created>>

\* update_elicitation_status: hset(key, "status", status.value); True
UpdateHSet(h) ==
    /\ handler[h].pc = "hset"
    /\ store' = [store EXCEPT ![handler[h].id] = HSetField(@, "status", handler[h].res)]
    /\ Return(h, handler[h].id, <<"update", "True">>)
    /\ UNCHANGED <<now, sweeper, ttl, queue, issued, creator, resumeCalls, created>>

InitTtl == InitWith(ProcIds, ProcHandlers, NumSessions) /\ InitOtpWith(0, 0)

NextTtl ==
    \/ \E t \in TtlInstants : Tick(t)
    \/ \E s \in Sessions, a \in SuspendedArgs : StoreHSet(s, a)
    \/ StoreExpire
    \/ StoreExpireFails
    \/ ProcCreateEnqueue
    \/ \E h \in Handlers, i \in Ids, s \in UpdateStatuses : UpdateExists(h, i, s)
    \/ \E h \in Handlers : UpdateHSet(h)

SpecTtl == InitTtl /\ [][NextTtl]_vars

\* ===================== the sweeper's task and its faults ===================
\* The manager call that fails for an id during one cycle: none, the loop's
\* get_elicitation, mark_expired's lookup, its update or its remove
SweepOps == {"get", "mark_expired", "update", "remove"}
SweepFaults == [Ids -> SweepOps \cup {"none"}]

\* mark_expired with the manager call `op` failing: the lookup gives None, the
\* update returns False, remove_from_queue returns False and is ignored
mark_expired_failing(st, q, id, op) ==
    LET got == IF op = "mark_expired" THEN None ELSE get_elicitation(st, id)
    IN IF got.none THEN Outcome(st, q, FALSE)
       ELSE IF op = "update" \/ ~update_ok(st, id) THEN Outcome(st, q, FALSE)
       ELSE Outcome(update_elicitation_status(st, id, EXPIRED),
                    IF op = "remove" THEN q
                    ELSE remove_from_queue(q, got.v["session_id"], id),
                    TRUE)

\* A loop that leaves every id as it is
CleanupNothing(st, q, ids, bad) == Outcome(st, q, TRUE)

\* A loop that ends at the first id with a failing call
RECURSIVE CleanupStopsOnError(_, _, _, _)
CleanupStopsOnError(st, q, ids, bad) ==
    IF ids = <<>> THEN Outcome(st, q, TRUE)
    ELSE IF bad[Head(ids)] # "none" THEN Outcome(st, q, TRUE)
    ELSE LET m == mark_expired_failing(st, q, Head(ids), "none")
         IN CleanupStopsOnError(m.store, m.queue, Tail(ids), bad)

\* _cleanup_expired: the loop over expired_ids, each id in its own try
RECURSIVE CleanupLoopFailing(_, _, _, _)
CleanupLoopFailing(st, q, ids, bad) ==
    IF ids = <<>> THEN Outcome(st, q, TRUE)
    ELSE IF bad[Head(ids)] = "get" \/ get_elicitation(st, Head(ids)).none
         THEN CleanupLoopFailing(st, q, Tail(ids), bad)
         ELSE LET m == mark_expired_failing(st, q, Head(ids), bad[Head(ids)])
              IN CleanupLoopFailing(m.store, m.queue, Tail(ids), bad)

\* A task that goes on whatever was requested of it
RunsRegardless(t) == TRUE

\* _run resumed by the event loop: a requested cancellation is raised at
\* the await, otherwise "while self._running" decides
ShouldRunCycle(t) == ~t.must_cancel /\ t.running

\* start(): no effect when already running
StartTask ==
    /\ ~task.running
    /\ task.pc \in {"none", "done"}
    /\ task' = [running |-> TRUE, pc |-> "ready", must_cancel |-> FALSE]
    /\ returned' = NoReturn /\ swept' = NoSweep
    /\ UNCHANGED <<queueObs, otpVars>>
    /\ UNCHANGED <<now, sweeper, store, ttl, queue, issued, creator, handler,
                   resumeCalls, created>>

\* stop() up to "await self._task": _running = False, self._task.cancel()
StopTask ==
    /\ task.running
    /\ task' = [task EXCEPT !.running = FALSE, !.must_cancel = TRUE]
    /\ returned' = NoReturn /\ swept' = NoSweep
    /\ UNCHANGED <<queueObs, otpVars>>
    /\ UNCHANGED <<now, sweeper, store, ttl, queue, issued, creator, handler,
                   resumeCalls, created>>

\* _run from its start or from the end of a sleep to the next sleep: one
\* _cleanup_expired over the keys scanned before find_expired_elicitations
\* fails, if it does
TaskCycle(keys, bad) ==
    /\ task.pc \in {"ready", "sleeping"}
    /\ ShouldRunCycle(task)
    /\ LET expired_ids == find_expired_elicitations(store, now, keys)
           m == CleanupLoopFailing(store, queue, expired_ids, bad)
       IN /\ store' = m.store
          /\ queue' = m.queue
          /\ swept' = [ran |-> TRUE, expired_ids |-> expired_ids]
    /\ task' = [task EXCEPT !.pc = "sleeping"]
    /\ returned' = NoReturn
    /\ UNCHANGED <<queueObs, otpVars>>
    /\ UNCHANGED <<now, sweeper, ttl, issued, creator, handler, resumeCalls, created>>

\* _run ends: CancelledError at its await, and stop() returns
TaskEnd ==
    /\ task.pc \in {"ready", "sleeping"}
    /\ ~ShouldRunCycle(task)
    /\ task' = [task EXCEPT !.pc = "done", !.must_cancel = FALSE]
    /\ returned' = NoReturn /\ swept' = NoSweep
    /\ UNCHANGED <<queueObs, otpVars>>
    /\ UNCHANGED <<now, sweeper, store, ttl, queue, issued, creator, handler,
                   resumeCalls, created>>

InitTask == InitWith(MaxIds, 0, NumSessions) /\ InitOtpWith(0, 0)

NextTask ==
    \/ \E t \in Instants : Tick(t)
    \/ \E s \in Sessions, a \in SuspendedArgs : CreateElicitation(s, a)
    \/ StartTask
    \/ StopTask
    \/ \E S \in SUBSET {i \in Ids : Exists(store, i)} :
          \E keys \in Orders(S), bad \in SweepFaults : TaskCycle(keys, bad)
    \/ TaskEnd

SpecTask == InitTask /\ [][NextTask]_vars

\* ------------------------------------------- the sweeper scheduled fairly
\* A cycle in which Redis answers every command
NoFaults == [i \in Ids |-> "none"]

FairCycle ==
    \E keys \in Orders({i \in Ids : Exists(store, i)}) : TaskCycle(keys, NoFaults)

\* The task is started and never stopped; records are created whole, or
\* without TTL and queue entry when EXPIRE fails; cycles fail at will.
\* Records with a TTL are created early enough for the clock to reach it.
NextTaskFair ==
    \/ \E t \in TtlInstants : Tick(t)
    \/ \E s \in Sessions, a \in SuspendedArgs :
          now <= ClockSlack /\ CreateElicitation(s, a)
    \/ \E s \in Sessions, a \in SuspendedArgs : StoreHSet(s, a)
    \/ StoreExpireFails
    \/ StartTask
    \/ \E S \in SUBSET {i \in Ids : Exists(store, i)} :
          \E keys \in Orders(S), bad \in SweepFaults : TaskCycle(keys, bad)

\* Time passes, and the sleeping task is woken again and again and finds
\* Redis answering in some of its cycles
InitTaskFair == InitWith(ProcIds, 0, NumSessions) /\ InitOtpWith(0, 0)

SpecTaskFair ==
    /\ InitTaskFair
    /\ [][NextTaskFair]_vars
    /\ WF_vars(\E t \in TtlInstants : Tick(t))
    /\ WF_vars(FairCycle)

\* ===================== Redis failing under the handler ====================
\* The manager calls of handle_response whose Redis command can raise
\* RedisError
StoreOps == {"get", "mark_expired", "set_processing", "set_result", "remove"}

\* What fails during one call: nothing, one manager call, or all of them
\* (Redis down)
FailureSets == {{}} \cup {{op} : op \in StoreOps} \cup {StoreOps}

\* get_elicitation: except RedisError -> return None
get_elicitation_or_error(st, id, failing) ==
    IF "get" \in failing THEN None ELSE get_elicitation(st, id)

\* update_elicitation_status: except RedisError -> return False, nothing written
update_or_error(st, id, status, op, failing) ==
    IF op \in failing THEN st ELSE update_elicitation_status(st, id, status)

\* mark_expired when its lookup raises: get_elicitation gives None, return False
mark_expired_or_error(st, q, id, failing) ==
    IF "mark_expired" \in failing THEN Outcome(st, q, FALSE)
    ELSE mark_expired(st, q, id)

\* remove_from_queue: except RedisError -> return False
remove_or_error(q, session, id, failing) ==
    IF "remove" \in failing THEN q ELSE remove_from_queue(q, session, id)

\* handle_response up to the await, the Redis commands of the calls in
\* `failing` raising RedisError
HandleResponseFaulty(h, id, user_input, failing) ==
    /\ handler[h].pc = "idle"
    /\ resumeCalls[id] < MaxResume
    /\ LET got == get_elicitation_or_error(store, id, failing)
       IN IF got.none
          THEN /\ Return(h, id, NotFoundError)
               /\ UNCHANGED <<store, queue, resumeCalls>>
          ELSE IF got.v["status"] # PENDING
          THEN /\ Return(h, id, InvalidStatusError(got.v["status"]))
               /\ UNCHANGED <<store, queue, resumeCalls>>
          ELSE IF ResponseExpired(now, got.v)
          THEN LET m == mark_expired_or_error(store, queue, id, failing)
               IN /\ store' = m.store
                  /\ queue' = m.queue
                  /\ Return(h, id, ExpiredError)
                  /\ UNCHANGED resumeCalls
          ELSE LET st == update_or_error(store, id, PROCESSING,
                                         "set_processing", failing)
                   otp == FinalOtp(user_input, got.v["suspended_tool_arguments"])
               IN IF otp = ""
                  THEN /\ store' = update_or_error(st, id, FAILED, "set_result", failing)
                       /\ Return(h, id, FailedResult)
                       /\ UNCHANGED <<queue, resumeCalls>>
                  ELSE /\ store' = st
                       /\ resumeCalls' = [resumeCalls EXCEPT ![id] = @ + 1]
                       /\ SetHandler(h, [IdleHandler EXCEPT !.pc = "awaiting", !.id = id,
                                            !.state = got.v, !.user_input = user_input,
                                            !.otp_code = otp])
                       /\ Quiet
                       /\ UNCHANGED queue
    /\ UNCHANGED <<now, sweeper, ttl, issued, creator, created>>

\* handle_response from the MCP reply to its return, likewise
HandleResumeFaulty(h, reply, failing) ==
    /\ handler[h].pc = "awaiting"
    /\ store' = update_or_error(store, handler[h].id, ResultStatus(reply),
                                "set_result", failing)
    /\ IF ResultStatus(reply) = COMPLETED
       THEN /\ queue' = remove_or_error(queue, handler[h].state["session_id"],
                                        handler[h].id, failing)
            /\ Return(h, handler[h].id, CompletedResult)
       ELSE /\ UNCHANGED queue
            /\ Return(h, handler[h].id, FailedResult)
    /\ UNCHANGED <<now, sweeper, ttl, issued, creator, resumeCalls, created>>

NextFaults ==
    \/ \E t \in Instants : Tick(t)
    \/ \E s \in Sessions, a \in SuspendedArgs : CreateElicitation(s, a)
    \/ \E h \in Handlers, i \in Ids, u \in UserInputs, f \in FailureSets :
          HandleResponseFaulty(h, i, u, f)
    \/ \E h \in Handlers, r \in McpResults, f \in FailureSets :
          HandleResumeFaulty(h, r, f)

InitFaults == InitWith(ProcIds, NumHandlers, NumSessions) /\ InitOtpWith(0, 0)

SpecFaults == InitFaults /\ [][NextFaults]_vars

\* ====================== create_elicitation on its own =====================
\* create_elicitation(..., session_id, schema, suspended_tool_arguments,
\* timeout_seconds) by a manager whose default_timeout_seconds is `default`
CreateWith(session, args, timeout_seconds, default) ==
    /\ creator.pc = "idle"
    /\ issued < Cardinality(Ids)
    /\ LET id == uuid4
           timeout == timeout_or_default(timeout_seconds, default)
       IN /\ issued' = issued + 1
          /\ store' = [store EXCEPT
                 ![id] = ElicitationState(id, session, now, SchemaTimeoutSeconds,
                                          timeout, args)]
          /\ ttl' = [ttl EXCEPT ![id] = Some(StoreTtl(now, timeout))]
          /\ queue' = add_to_queue(queue, session, id)
          /\ created' = created \cup {id}
    /\ Quiet
    /\ UNCHANGED <<now, sweeper, creator, handler, resumeCalls>>

InitCreate == InitWith(MaxIds, 0, NumSessions) /\ InitOtpWith(0, 0)

NextCreate ==
    \/ \E t \in Instants : Tick(t)
    \/ \E s \in Sessions, a \in SuspendedArgs, t \in TimeoutArgs,
          d \in ConfiguredDefaults : CreateWith(s, a, t, d)

SpecCreate == InitCreate /\ [][NextCreate]_vars

\* ========================= the sweeper's cycle ============================
\* The sweeper of one event loop over records that are created, cancelled and
\* left to expire
InitSweep == InitWith(SweepIds, 0, NumSessions) /\ InitOtpWith(0, 0)

NextSweep ==
    \/ \E t \in Instants : Tick(t)
    \/ \E s \in Sessions, a \in SuspendedArgs : CreateElicitation(s, a)
    \/ \E keys \in Orders({i \in Ids : Exists(store, i)}) : CleanupExpired(keys)
    \/ \E i \in Ids : CancelElicitation(i)

SpecSweep == InitSweep /\ [][NextSweep]_vars

\* ================================ claims ==================================

\* C1: of the handle_response calls made concurrently for one elicitation_id,
\* from one process or from several, at most one invokes the confirm_payment
\* tool.  Several processes: two of them read "pending" (step 2) before
\* either writes "processing" (step 4), and both call the tool.
C1_AtMostOneResume == \A i \in Ids : resumeCalls[i] <= 1

\* C2: the stored status of an elicitation only moves along
\* pending -> processing -> {completed | failed} or pending -> {expired |
\* cancelled}, steps of these paths may be skipped, and it never returns to
\* pending.  Stated here with the cancellation of a processing elicitation
\* admitted as well, which the state machine of the specification lists, so
\* that what fails is a move out of completed, failed, expired or cancelled.
C2_StatusMovesForward ==
    [][\A i \in Ids :
          (Exists(store, i) /\ Exists(store', i)
             /\ store'[i]["status"] # store[i]["status"])
          => <<store[i]["status"], store'[i]["status"]>> \in
                {<<PENDING, PROCESSING>>, <<PENDING, COMPLETED>>,
                 <<PENDING, FAILED>>, <<PENDING, EXPIRED>>,
                 <<PENDING, CANCELLED>>, <<PROCESSING, COMPLETED>>,
                 <<PROCESSING, FAILED>>, <<PROCESSING, CANCELLED>>}]_vars

\* C3: once the stored status is completed, failed, expired or cancelled, no
\* later operation changes it.
C3_TerminalStatusIsFinal ==
    [][\A i \in Ids :
          (Exists(store, i) /\ store[i]["status"] \in Terminal)
          => (Exists(store', i) /\ store'[i]["status"] = store[i]["status"])]_vars

C5_FindExpiredByAge ==
    \A i \in Ids :
       (Exists(store, i) /\ store[i]["status"] = PENDING)
       => \A keys \in Orders({k \in Ids : Exists(store, k)}) :
             LET T == store[i]["schema"]["timeout_seconds"]
                 found == find_expired_elicitations(store, now, keys)
                 reported == \E n \in DOMAIN found : found[n] = i
             IN /\ now > store[i]["created_at"] + T => reported
                /\ now < store[i]["created_at"] + T => ~reported

C5_PendingPastTimeout ==
    /\ Exists(store, 1) /\ store[1]["status"] = PENDING
    /\ now > store[1]["created_at"] + store[1]["schema"]["timeout_seconds"]
    /\ Exists(store, 2) /\ store[2]["status"] = PENDING
    /\ now < store[2]["created_at"] + store[2]["schema"]["timeout_seconds"]

\* C6: per session the queue is first in, first out: get_next_in_queue
\* returns the id that was enqueued earliest among those still queued (none
\* for an empty queue), and it removes nothing.
C6_PeekIsOldest ==
    [][\A s \in Sessions :
          QueuePeek(s)
          => /\ queue' = queue
             /\ qret'.value = IF arrivals[s] = <<>> THEN None
                              ELSE Some(Head(arrivals[s]))]_vars

C6_PeekedOldestOfThree ==
    /\ qret.op = "peek"
    /\ Len(arrivals[qret.session]) = 3
    /\ Cardinality({arrivals[qret.session][k] : k \in 1..3}) = 3
    /\ qret.value = Some(arrivals[qret.session][1])
    /\ Len(queue[qret.session]) = 3

\* C7: remove_from_queue(session, id) removes every occurrence of id from
\* that session's queue, keeps the other entries in their order, touches no
\* other queue, and returns true exactly when id was queued; when id is
\* absent the queues are unchanged and it returns false.
C7_RemoveAllOccurrences ==
    [][\A s \in Sessions, i \in Ids :
          QueueRemove(s, i)
          => LET present == \E k \in DOMAIN queue[s] : queue[s][k] = i
             IN /\ queue'[s] = SelectSeq(queue[s], LAMBDA x : x # i)
                /\ \A s2 \in Sessions \ {s} : queue'[s2] = queue[s2]
                /\ qret'.value = present
                /\ ~present => queue' = queue]_vars

C7_RemovedTwoOccurrences ==
    /\ qret.op = "remove"
    /\ qret.value = TRUE
    /\ qret.removed = 2
    /\ Len(queue[qret.session]) = 1

\* C8: handle_response for an id without a stored record returns an error,
\* stores no record, changes no queue and makes no confirm_payment call.
C8_MissingIdChangesNothing ==
    [][\A h \in Handlers, i \in Ids, u \in UserInputs :
          (HandleResponse(h, i, u) /\ ~Exists(store, i))
          => /\ returned'.id = i
             /\ returned'.result[1] = "error"
             /\ store' = store
             /\ ttl' = ttl
             /\ queue' = queue
             /\ resumeCalls' = resumeCalls]_vars

C8_MissingIdAnswered ==
    /\ returned.id \in Ids
    /\ ~Exists(store, returned.id)
    /\ returned.result[1] = "error"
    /\ \E i \in Ids : Exists(store, i)

\* C9: handle_response for a record whose status is not pending returns an
\* error that names the stored status, leaves the records and the queues
\* unchanged, and makes no confirm_payment call.
C9_NotPendingRejected ==
    [][\A h \in Handlers, i \in Ids, u \in UserInputs :
          (HandleResponse(h, i, u) /\ Exists(store, i)
             /\ store[i]["status"] # PENDING)
          => /\ returned' = [id |-> i, result |-> <<"error", store[i]["status"]>>]
             /\ store' = store
             /\ queue' = queue
             /\ resumeCalls' = resumeCalls]_vars

C9_ProcessingRejected ==
    /\ returned.id \in Ids
    /\ Exists(store, returned.id)
    /\ store[returned.id]["status"] = PROCESSING
    /\ returned.result = <<"error", PROCESSING>>
    /\ resumeCalls[returned.id] = 1

\* C10: handle_response for a pending record with now > expires_at returns
\* the "expired" error, leaves the stored status expired, and makes no
\* confirm_payment call.
C10_LateResponseExpires ==
    [][\A h \in Handlers, i \in Ids, u \in UserInputs :
          (HandleResponse(h, i, u) /\ Exists(store, i)
             /\ store[i]["status"] = PENDING
             /\ now > store[i]["expires_at"])
          => /\ returned' = [id |-> i, result |-> <<"error", "expired">>]
             /\ store'[i]["status"] = EXPIRED
             /\ resumeCalls' = resumeCalls]_vars

C10_LateResponseAnswered ==
    /\ returned.id \in Ids
    /\ returned.result = <<"error", "expired">>
    /\ Exists(store, returned.id)
    /\ store[returned.id]["status"] = EXPIRED
    /\ now > store[returned.id]["expires_at"]
    /\ resumeCalls[returned.id] = 0

\* C11: handle_response on a pending, unexpired record sets it to processing
\* and calls confirm_payment; when that call succeeds, then on return the
\* stored status is completed, no queue holds the id, and the result
\* returned is the tool's payload.
C11_SuccessCompletes ==
    [][/\ \A h \in Handlers, i \in Ids, u \in UserInputs :
             (HandleResponse(h, i, u) /\ Exists(store, i)
                /\ store[i]["status"] = PENDING
                /\ now <= store[i]["expires_at"]
                /\ u # [otp_code |-> "", confirmed |-> "False"])
             => /\ store'[i]["status"] = PROCESSING
                /\ handler'[h].pc = "awaiting"
                /\ handler'[h].id = i
                /\ resumeCalls'[i] = resumeCalls[i] + 1
       /\ \A h \in Handlers :
             HandleResume(h, "ok")
             => LET i == handler[h].id
                IN /\ store'[i]["status"] = COMPLETED
                   /\ \A s \in Sessions : \A k \in DOMAIN queue'[s] : queue'[s][k] # i
                   /\ returned' = [id |-> i,
                                   result |-> <<"completed", "payment_result">>]]_vars

C11_CompletedAndDequeued ==
    /\ returned.id \in Ids
    /\ returned.result = <<"completed", "payment_result">>
    /\ store[returned.id]["status"] = COMPLETED
    /\ resumeCalls[returned.id] = 1
    /\ queue[store[returned.id]["session_id"]] # <<>>
    /\ \A k \in DOMAIN queue[store[returned.id]["session_id"]] :
          queue[store[returned.id]["session_id"]][k] # returned.id

\* C12: when the confirm_payment call fails, handle_response leaves the
\* stored status failed and returns the error payload without calling the
\* tool again; a later handle_response for that id is rejected with an
\* error and makes no call either.
C12_FailureIsNotRetried ==
    [][/\ \A h \in Handlers :
             HandleResume(h, "isError")
             => LET i == handler[h].id
                IN /\ store'[i]["status"] = FAILED
                   /\ returned' = [id |-> i, result |-> <<"failed", "error">>]
                   /\ resumeCalls' = resumeCalls
                   /\ handler'[h].pc = "idle"
       /\ \A h \in Handlers, i \in Ids, u \in UserInputs :
             (HandleResponse(h, i, u) /\ Exists(store, i)
                /\ store[i]["status"] = FAILED)
             => /\ returned'.id = i
                /\ returned'.result[1] = "error"
                /\ resumeCalls' = resumeCalls
                /\ store' = store]_vars

C12_RejectedAfterFailure ==
    /\ returned.id \in Ids
    /\ returned.result = <<"error", FAILED>>
    /\ store[returned.id]["status"] = FAILED
    /\ resumeCalls[returned.id] = 1

\* C13: one sweeper cycle leaves exactly the pending records with
\* expires_at in the past in status expired and out of the queues; every
\* other record, and every other queue entry in its position, is as before.
C13_CycleExpiresPastDue ==
    [][\A keys \in Orders({k \in Ids : Exists(store, k)}) :
          CleanupExpired(keys)
          => LET pastDue(i) == /\ Exists(store, i)
                               /\ store[i]["status"] = PENDING
                               /\ now > store[i]["expires_at"]
             IN /\ \A i \in Ids :
                      store'[i] = IF pastDue(i)
                                  THEN [store[i] EXCEPT !["status"] = EXPIRED]
                                  ELSE store[i]
                /\ \A s \in Sessions :
                      queue'[s] = SelectSeq(queue[s], LAMBDA x : ~pastDue(x))]_vars

C13_TwoExpiredOneLeft ==
    /\ swept.ran
    /\ Len(swept.expired_ids) = 2
    /\ \A k \in 1..2 : store[swept.expired_ids[k]]["status"] = EXPIRED
    /\ \E i \in Ids :
          /\ Exists(store, i)
          /\ store[i]["status"] = PENDING
          /\ \E k \in DOMAIN queue[store[i]["session_id"]] :
                queue[store[i]["session_id"]][k] = i

C19_ExpiresAfterCreation ==
    \A i \in Ids :
       Exists(store, i) => store[i]["expires_at"] > store[i]["created_at"]

\* C15: when a store operation of handle_response fails, the call returns
\* an error result: a failed lookup ends it with an error and without a
\* confirm_payment call; after a failed write of processing it makes no
\* confirm_payment call and returns an error; after a failed write of the
\* final status it does not return a completed result.
C15_StoreFailureSurfaces ==
    [][/\ \A h \in Handlers, i \in Ids, u \in UserInputs, f \in FailureSets :
             (HandleResponseFaulty(h, i, u, f) /\ "get" \in f)
             => /\ returned'.id = i
                /\ returned'.result[1] = "error"
                /\ resumeCalls' = resumeCalls
       /\ \A h \in Handlers, i \in Ids, u \in UserInputs, f \in FailureSets :
             (HandleResponseFaulty(h, i, u, f) /\ "get" \notin f
                /\ "set_processing" \in f /\ Exists(store, i)
                /\ store[i]["status"] = PENDING /\ now <= store[i]["expires_at"])
             => /\ returned'.id = i
                /\ returned'.result[1] \in {"error", "failed"}
                /\ resumeCalls' = resumeCalls
       /\ \A h \in Handlers, r \in McpResults, f \in FailureSets :
             (HandleResumeFaulty(h, r, f) /\ "set_result" \in f)
             => returned'.result[1] # "completed"]_vars

\* C16: confirm_payment(order_id, otp) gets past the verification, and so
\* can succeed, only when the store holds an OTP for the order, generated
\* by initiate_payment, the OTP has not expired and otp equals it; for an
\* order without OTP, an expired OTP or a wrong otp it returns success =
\* false and leaves the OTP store unchanged.
C16_ConfirmNeedsValidOtp ==
    [][/\ \A c \in Callers, o \in Orders_ids, p \in OtpInputs :
             ConfirmPayment(c, o, p)
             => LET valid == /\ otps[o] # None
                             /\ now <= otps[o].v.expires_at
                             /\ p = otps[o].v.otp
                IN IF valid
                   THEN /\ confirms'[c].pc = "awaiting"
                        /\ otpRet'.call = "none"
                   ELSE /\ otpRet' = [call |-> "confirm", order_id |-> o,
                                      otp |-> p, success |-> FALSE]
                        /\ otps' = otps
                        /\ confirms' = confirms
       /\ (otpRet'.call = "confirm" /\ otpRet'.success)
             => \E c \in Callers :
                   /\ confirms[c].pc = "awaiting"
                   /\ confirms[c].order_id = otpRet'.order_id
                   /\ confirms[c].otp = otpRet'.otp]_vars

C16_ExpiredOtpRejected ==
    /\ otpRet.call = "confirm"
    /\ ~otpRet.success
    /\ otps[otpRet.order_id] # None
    /\ otpRet.otp = otps[otpRet.order_id].v.otp
    /\ now > otps[otpRet.order_id].v.expires_at

\* C17: the sweeper changes the status of a record only when the record is
\* pending at the moment of the write: a record that handle_response has
\* moved to processing, completed or failed since find_expired listed it is
\* not set to expired by the sweeper.
C17_SweeperExpiresOnlyPending ==
    [][\A i \in Ids :
          (/\ sweeper' # sweeper
           /\ Exists(store, i)
           /\ store'[i]["status"] # store[i]["status"])
          => store[i]["status"] = PENDING]_vars

\* C18: in every reachable state each elicitation id is in the queue of at
\* most one session, and every record whose stored status is pending is
\* exactly once in the queue of its own session_id.
C18_PendingQueuedOnce ==
    \A i \in Ids :
       /\ Cardinality({s \in Sessions : Count(queue[s], i) > 0}) <= 1
       /\ (Exists(store, i) /\ store[i]["status"] = PENDING)
             => Count(queue[store[i]["session_id"]], i) = 1

\* C20: no step changes the expires_at, created_at,
\* suspended_tool_arguments, schema, session_id or tool_call_id of a record
\* that exists before and after it: of these operations
\* (update_elicitation_status, handle_response, cancel_elicitation,
\* mark_expired, the sweeper's cycle) status is the only field written.
C20_OnlyStatusChanges ==
    [][\A i \in Ids :
          (Exists(store, i) /\ Exists(store', i))
          => /\ DOMAIN store'[i] = DOMAIN store[i]
             /\ \A f \in {"expires_at", "created_at", "suspended_tool_arguments",
                          "schema", "session_id", "tool_call_id", "elicitation_id"} :
                   store'[i][f] = store[i][f]]_vars

C20_ResolvedRecordsIntact ==
    \E i, j \in Ids :
       /\ Exists(store, i) /\ store[i]["status"] = COMPLETED
       /\ Exists(store, j) /\ store[j]["status"] = EXPIRED
       /\ \A k \in {i, j} :
             /\ store[k]["expires_at"] = store[k]["created_at"] + SchemaTimeoutSeconds
             /\ store[k]["session_id"] \in Sessions
             /\ store[k]["suspended_tool_arguments"] \in SuspendedArgs

\* C29: an OTP is single-use: a confirm_payment call returns success only
\* while the order's OTP is still in the store, so once one call has
\* returned success (and deleted the OTP) no other call for the order,
\* concurrent ones with the same correct OTP included, returns success
\* until initiate_payment issues a new OTP.
C29_OtpSingleUse ==
    [][(otpRet'.call = "confirm" /\ otpRet'.success)
          => otps[otpRet'.order_id] # None]_vars

\* C28: the resume operation is invoked only while the stored status is
\* processing: in the step in which handle_response calls confirm_payment
\* the record exists with status processing.
C28_ResumeOnlyWhileProcessing ==
    [][\A i \in Ids :
          resumeCalls'[i] > resumeCalls[i]
          => (Exists(store', i) /\ store'[i]["status"] = PROCESSING)]_vars

\* C24: cancel_elicitation writes status cancelled only on a record that is
\* pending or processing (and removes the id from its session queue), and
\* a cancellation that lands while handle_response is suspended on the
\* resume call is not replaced by completed or failed afterwards.
C24_CancelOnlyLiveRecords ==
    [][\A i \in Ids :
          /\ (/\ Exists(store, i)
              /\ store'[i]["status"] = CANCELLED
              /\ store[i]["status"] # CANCELLED)
                => /\ store[i]["status"] \in {PENDING, PROCESSING}
                   /\ Count(queue'[store[i]["session_id"]], i) = 0
          /\ (Exists(store, i) /\ store[i]["status"] = CANCELLED)
                => store'[i]["status"] = CANCELLED]_vars

\* C30: when user_input has no otp_code and confirmed is not exactly True,
\* or the suspended arguments have no user_id, handle_response on a pending
\* unexpired record does not call confirm_payment and ends the record in
\* status failed; otherwise it calls confirm_payment with the otp_code given,
\* and with the dummy code "000000" only when otp_code is absent and
\* confirmed is True.
C30_NoCodeNoCall ==
    [][\A h \in Handlers, i \in Ids, u \in ResumeInputs :
          (/\ HandleResponse(h, i, u)
           /\ Exists(store, i)
           /\ store[i]["status"] = PENDING
           /\ now <= store[i]["expires_at"])
          => IF \/ store[i]["suspended_tool_arguments"]["user_id"] = ""
                \/ (u["otp_code"] = "" /\ u["confirmed"] # "True")
             THEN /\ resumeCalls' = resumeCalls
                  /\ store'[i]["status"] = FAILED
                  /\ returned' = [id |-> i, result |-> <<"failed", "error">>]
             ELSE /\ resumeCalls'[i] = resumeCalls[i] + 1
                  /\ handler'[h].pc = "awaiting"
                  /\ handler'[h].otp_code =
                        IF u["otp_code"] = "" THEN "000000" ELSE u["otp_code"]]_vars

C30_RefusedWithoutCode ==
    \E i \in Ids :
       /\ returned = [id |-> i, result |-> <<"failed", "error">>]
       /\ store[i]["status"] = FAILED
       /\ store[i]["suspended_tool_arguments"]["user_id"] # ""
       /\ resumeCalls[i] = 0

\* C23: the lazy and the eager expiry agree: handle_response on a pending
\* record takes its expired branch exactly when find_expired_elicitations
\* would list the id at the same clock value, and a record expired by
\* either path is the record as it was with status expired, its id out of
\* its session's queue.
C23_LazyAndEagerAgree ==
    [][\A i \in Ids :
          (Exists(store, i) /\ store[i]["status"] = PENDING)
          => LET listed == find_expired_elicitations(store, now, <<i>>) = <<i>>
                 expiredNow ==
                    /\ store'[i] = [store[i] EXCEPT !["status"] = EXPIRED]
                    /\ Count(queue'[store[i]["session_id"]], i) = 0
             IN /\ \A h \in Handlers, u \in UserInputs :
                      HandleResponse(h, i, u)
                      => /\ (returned'.result = <<"error", "expired">>) <=> listed
                         /\ listed => expiredNow
                /\ \A keys \in Orders({k \in Ids : Exists(store, k)}) :
                      CleanupExpired(keys)
                      => /\ (\E n \in 1..Len(swept'.expired_ids) :
                                swept'.expired_ids[n] = i) <=> listed
                         /\ listed => expiredNow]_vars

C23_ExpiredOnBothPaths ==
    \E i, j \in Ids :
       /\ i # j
       /\ returned = [id |-> i, result |-> <<"error", "expired">>]
       /\ store[i]["status"] = EXPIRED
       /\ Exists(store, j) /\ store[j]["status"] = EXPIRED
       /\ \A s \in Sessions : Count(queue[s], i) = 0 /\ Count(queue[s], j) = 0

\* C25: within one sweeper cycle a failure while processing one listed id
\* does not stop the cycle: every listed past-due pending id whose own calls
\* succeed is set to expired and dequeued, wherever it stands in the list,
\* and the task goes on to its next sleep and cycle.
C25_CycleSurvivesBadRecord ==
    [][\A S \in SUBSET Ids : \A keys \in Orders(S), bad \in SweepFaults :
          TaskCycle(keys, bad)
          => /\ \A i \in S :
                   (/\ Exists(store, i)
                    /\ store[i]["status"] = PENDING
                    /\ now > store[i]["expires_at"]
                    /\ bad[i] = "none")
                   => /\ store'[i] = [store[i] EXCEPT !["status"] = EXPIRED]
                      /\ Count(queue'[store[i]["session_id"]], i) = 0
             /\ task' = [running |-> TRUE, pc |-> "sleeping",
                         must_cancel |-> FALSE]]_vars

C25_SecondExpiredAfterFailedFirst ==
    \E i, j \in Ids :
       /\ i # j
       /\ swept = [ran |-> TRUE, expired_ids |-> <<i, j>>]
       /\ store[i]["status"] = PENDING
       /\ store[j]["status"] = EXPIRED
       /\ Count(queue[store[j]["session_id"]], j) = 0

\* C26: after stop() no further cycle starts and the task's next step ends
\* it; the task ends at its await only, so the step that ends it changes no
\* record and no queue, and every cycle that started has run over its list.
C26_StopEndsTaskBetweenCycles ==
    [][/\ swept'.ran => (task.running /\ ~task.must_cancel)
       /\ (task.must_cancel /\ task'.pc # task.pc) => task'.pc = "done"
       /\ (task'.pc = "done" /\ task.pc # "done")
             => /\ task.must_cancel
                /\ store' = store
                /\ queue' = queue]_vars

C26_StoppedWithWorkLeft ==
    /\ task = [running |-> FALSE, pc |-> "done", must_cancel |-> FALSE]
    /\ \E i, j \in Ids :
          /\ Exists(store, i) /\ Exists(store, j)
          /\ store[i]["status"] = EXPIRED
          /\ Count(queue[store[i]["session_id"]], i) = 0
          /\ store[j]["status"] = PENDING
          /\ now > store[j]["expires_at"]

\* C21: update_elicitation_status for an id without stored record returns
\* False and leaves the store without entry for the id: an entry comes into
\* being only by the HSET of _store_elicitation, also when the record is
\* reaped between the existence check and the status write.
C21_UpdateCreatesNoEntry ==
    [][\A i \in Ids :
          (~Exists(store, i) /\ Exists(store', i))
          => (creator.pc = "idle" /\ creator'.pc = "expire" /\ creator'.id = i)]_vars

\* C22: every entry under elicitation:{id}, other than the one that
\* _store_elicitation is in the course of writing, carries a TTL (so that
\* Redis removes it in the end) and is a whole record.
C22_EveryEntryHasTtl ==
    \A i \in Ids :
       (Exists(store, i) /\ ~(creator.pc = "expire" /\ creator.id = i))
       => /\ ttl[i] # None
          /\ AllFields \subseteq DOMAIN store[i]

\* C27: while the sweeper runs, every record that is pending with
\* expires_at in the past is eventually expired and out of its session's
\* queue, or gone from the store, also when cycles fail on store errors in
\* between.
C27_PastDueEventuallyExpired ==
    \A i \in 1..ProcIds :
       (/\ task.running
        /\ Exists(store, i)
        /\ store[i]["status"] = PENDING
        /\ now > store[i]["expires_at"])
       ~> (\/ ~Exists(store, i)
           \/ /\ store[i]["status"] = EXPIRED
              /\ \A s \in Sessions : Count(queue[s], i) = 0)

C27_UntimedRecordExpired ==
    \E i \in Ids :
       /\ swept.ran
       /\ Exists(store, i)
       /\ ttl[i] = None
       /\ store[i]["status"] = EXPIRED
       /\ \A s \in Sessions : Count(queue[s], i) = 0
====
